---- MODULE Spec2Model ----
(***************************************************************************)
(* QUADS MCP tool-invocation gateway (quads_mcp/tools/quads_tools.py and   *)
(* quads_mcp/server.py).                                                   *)
(*                                                                         *)
(* Every tool is a coroutine of the same shape:                            *)
(*   try: resolve config -> build params -> ctx.info -> await HTTP call    *)
(*        -> raise_for_status -> json() -> ctx.info -> return              *)
(*   except ...: ctx.error -> return {"error": ...}                        *)
(* An invocation has one suspension point, the awaited HTTP call.  The     *)
(* model runs the code before the await in Invoke, and the code after it   *)
(* in Respond (the call completed) or Cancel (the task was cancelled).     *)
(*                                                                         *)
(* Encoding of Python values:                                              *)
(*   str    a sequence of text fragments whose concatenation is the text   *)
(*          ("" is <<>>); an argument holds it as Str(text), so that it    *)
(*          can be told from None;                                         *)
(*   None   the record None; bool  the records PyTrue, PyFalse;            *)
(*   dict   a function from its keys (strings) to its values;              *)
(*   JSON   a decoded body is tagged with its Python type ("dict",         *)
(*          "list"), so that a list is never mistaken for a dict.          *)
(***************************************************************************)
EXTENDS Integers, Sequences, FiniteSets, TLC

VARIABLES
    config,   \* AppContext.config, shared by every invocation
    pc,       \* pc[i]: "idle", "await" (suspended in the HTTP call), "returned", "raised"
    tool,     \* tool[i]: the tool invoked
    args,     \* args[i]: its arguments, a function from argument names to values
    ctx,      \* ctx[i]: the diagnostics handle passed in (CtxHandle) or None
    reqctx,   \* reqctx[i]: whether mcp.get_request_context() succeeds for the call
    sent,     \* sent[i]: the outbound HTTP requests issued so far
    log,      \* log[i]: the messages given to ctx.info / ctx.error so far
    outcome,  \* outcome[i]: how the HTTP call ended (NoOutcome before that)
    params,   \* params[i]: the coroutine's local `params` dict
    ret,      \* ret[i]: the value returned to the protocol layer
    exc       \* exc[i]: the exception that left the coroutine (NoExc if none)

vars == <<config, pc, tool, args, ctx, reqctx, sent, log, outcome, params, ret, exc>>

\* Number of invocation slots that may be in flight together.
NumInv == 2

Inv == 1..NumInv

-----------------------------------------------------------------------------
(* Python values *)

None == [none |-> TRUE]
PyTrue == [bool |-> TRUE]
PyFalse == [bool |-> FALSE]
\* A str argument with text s.
Str(s) == [str |-> s]
EmptyDict == <<>>
NoRet == [type |-> "unset"]
NoExc == [type |-> "NoExc"]
NoOutcome == [kind |-> "none"]
NoTool == "none"
NoArgs == <<>>
\* A working diagnostics handle injected by the protocol layer.
CtxHandle == [handle |-> TRUE]

\* A dict value as the caller sees it.
Dict(d) == [type |-> "dict", v |-> d]
\* A list value as the caller sees it.
List(l) == [type |-> "list", v |-> l]

\* Faulty variant of Truthy: the test written `if name is not None:`, which
\* lets the empty string through.
TruthyNotNone(x) == x # None

\* Python truthiness of an Optional[str]: `if name:` is false for None and "".
Truthy(x) == x # None /\ x.str # <<>>

UpperCase == <<"A","B","C","D","E","F","G","H","I","J","K","L","M",
               "N","O","P","Q","R","S","T","U","V","W","X","Y","Z">>
LowerCase == <<"a","b","c","d","e","f","g","h","i","j","k","l","m",
               "n","o","p","q","r","s","t","u","v","w","x","y","z">>

\* str.lower() on one character.
LowerChar(c) ==
    IF \E k \in DOMAIN UpperCase : UpperCase[k] = c
    THEN LowerCase[CHOOSE k \in DOMAIN UpperCase : UpperCase[k] = c]
    ELSE c

\* Faulty variant of Lower: the .lower() call left out.
LowerOmitted(s) == s

\* str.lower(), on a string held one character per fragment.
Lower(s) == [k \in DOMAIN s |-> LowerChar(s[k])]

\* str(b) for a bool b: "True" or "False".
StrBool(b) == IF b.bool THEN <<"T","r","u","e">> ELSE <<"F","a","l","s","e">>

DigitChars == <<"0","1","2","3","4","5","6","7","8","9">>

\* str(n) for a non-negative int n, one digit per fragment.
RECURSIVE StrInt(_)
StrInt(n) ==
    IF n < 10 THEN <<DigitChars[n + 1]>>
    ELSE Append(StrInt(n \div 10), DigitChars[(n % 10) + 1])

\* d[k] = v on a dict d.
SetItem(d, k, v) == (k :> v) @@ d

\* d.get(k, default) on a dict d.
Get(d, k, default) == IF k \in DOMAIN d THEN d[k] ELSE default

\* A raised exception: its class and str(e).
Exc(type, msg) == [type |-> type, msg |-> msg]

-----------------------------------------------------------------------------
(* The tools and their signatures *)

Tools == {"quads_login", "quads_get_clouds", "quads_get_free_clouds",
          "quads_get_hosts", "quads_get_host_details",
          "quads_get_available_hosts", "quads_check_host_availability",
          "quads_get_schedules", "quads_get_current_schedules",
          "quads_get_assignments", "quads_get_active_assignments",
          "quads_get_moves", "quads_get_version"}

\* The required str parameters of each tool, in declaration order.
RequiredArgs(t) ==
    CASE t = "quads_login" -> <<"username", "password">>
      [] t = "quads_get_host_details" -> <<"hostname">>
      [] t = "quads_check_host_availability" -> <<"hostname">>
      [] OTHER -> <<>>

\* The Optional[str] = None parameters of each tool, in declaration order.
OptionalStrArgs(t) ==
    CASE t = "quads_get_hosts" -> <<"name", "model", "host_type">>
      [] t = "quads_get_available_hosts" -> <<"start", "end", "cloud">>
      [] t = "quads_check_host_availability" -> <<"start", "end">>
      [] t = "quads_get_current_schedules" -> <<"date", "host", "cloud">>
      [] t = "quads_get_active_assignments" -> <<"cloud_name">>
      [] t = "quads_get_moves" -> <<"date">>
      [] OTHER -> <<>>

\* The Optional[bool] = None parameters of each tool.
OptionalBoolArgs(t) ==
    IF t = "quads_get_hosts" THEN <<"broken">> ELSE <<>>

\* The tools declared with `ctx: Context = None`.
CtxDefaultsToNone(t) ==
    t \in {"quads_get_hosts", "quads_get_available_hosts",
           "quads_check_host_availability", "quads_get_current_schedules",
           "quads_get_active_assignments", "quads_get_moves"}

Range(s) == {s[k] : k \in DOMAIN s}

ArgNames(t) ==
    Range(RequiredArgs(t)) \cup Range(OptionalStrArgs(t)) \cup Range(OptionalBoolArgs(t))

-----------------------------------------------------------------------------
(* Configuration (server.py) *)

DefaultBaseUrl == <<"https://quads.example.com/api/v3">>

\* config.get('quads', {}).get('base_url', default): the base URL, or the
\* AttributeError raised when config['quads'] is not a mapping.
BaseUrl(cfg) ==
    LET quads == Get(cfg, "quads", EmptyDict) IN
    IF quads = None
    THEN [ok |-> FALSE,
          exc |-> Exc("AttributeError", <<"'NoneType' object has no attribute 'get'">>)]
    ELSE [ok |-> TRUE, url |-> Get(quads, "base_url", DefaultBaseUrl)]

\* Faulty variant of ConfigAfterGet: config.setdefault('quads', {}) in place of
\* config.get('quads', {}), which writes the missing key into the shared dict.
ConfigAfterSetdefault(cfg) ==
    IF "quads" \in DOMAIN cfg THEN cfg ELSE SetItem(cfg, "quads", EmptyDict)

\* The shared config after a tool has read it: dict.get leaves it unchanged.
ConfigAfterGet(cfg) == cfg

-----------------------------------------------------------------------------
(* HTTP call builder *)

\* The per-call timeout passed to client.get / client.post.
HttpTimeout == 30

\* Faulty variant of HostsParams: the `is not None` guard of `broken` left out, so
\* that an unset broken is sent as str(None).lower().
HostsParamsUnguarded(a) ==
    LET p0 == EmptyDict
        p1 == IF Truthy(a.name) THEN SetItem(p0, "name", a.name.str) ELSE p0
        p2 == IF Truthy(a.model) THEN SetItem(p1, "model", a.model.str) ELSE p1
        p3 == IF Truthy(a.host_type) THEN SetItem(p2, "host_type", a.host_type.str) ELSE p2
        p4 == SetItem(p3, "broken",
                      IF a.broken = None THEN <<"n", "o", "n", "e">>
                      ELSE Lower(StrBool(a.broken)))
    IN p4

\* The params dict of quads_get_hosts.
HostsParams(a) ==
    LET p0 == EmptyDict
        p1 == IF Truthy(a.name) THEN SetItem(p0, "name", a.name.str) ELSE p0
        p2 == IF Truthy(a.model) THEN SetItem(p1, "model", a.model.str) ELSE p1
        p3 == IF Truthy(a.host_type) THEN SetItem(p2, "host_type", a.host_type.str) ELSE p2
        p4 == IF a.broken # None
              THEN SetItem(p3, "broken", Lower(StrBool(a.broken))) ELSE p3
    IN p4

\* The params dict of quads_get_available_hosts.
AvailableHostsParams(a) ==
    LET p0 == EmptyDict
        p1 == IF Truthy(a.start) THEN SetItem(p0, "start", a.start.str) ELSE p0
        p2 == IF Truthy(a.end) THEN SetItem(p1, "end", a.end.str) ELSE p1
        p3 == IF Truthy(a.cloud) THEN SetItem(p2, "cloud", a.cloud.str) ELSE p2
    IN p3

\* The params dict of quads_check_host_availability.
HostAvailabilityParams(a) ==
    LET p0 == EmptyDict
        p1 == IF Truthy(a.start) THEN SetItem(p0, "start", a.start.str) ELSE p0
        p2 == IF Truthy(a.end) THEN SetItem(p1, "end", a.end.str) ELSE p1
    IN p2

\* The params dict of quads_get_current_schedules.
CurrentSchedulesParams(a) ==
    LET p0 == EmptyDict
        p1 == IF Truthy(a.date) THEN SetItem(p0, "date", a.date.str) ELSE p0
        p2 == IF Truthy(a.host) THEN SetItem(p1, "host", a.host.str) ELSE p1
        p3 == IF Truthy(a.cloud) THEN SetItem(p2, "cloud", a.cloud.str) ELSE p2
    IN p3

\* The params dict of quads_get_moves.
MovesParams(a) ==
    LET p0 == EmptyDict
        p1 == IF Truthy(a.date) THEN SetItem(p0, "date", a.date.str) ELSE p0
    IN p1

\* The tools that build a params dict and pass it as params=.
HasParams(t) ==
    t \in {"quads_get_hosts", "quads_get_available_hosts",
           "quads_check_host_availability", "quads_get_current_schedules",
           "quads_get_moves"}

\* The local `params` of tool t called with arguments a (no such local: None).
BuildParams(t, a) ==
    CASE t = "quads_get_hosts" -> HostsParams(a)
      [] t = "quads_get_available_hosts" -> AvailableHostsParams(a)
      [] t = "quads_check_host_availability" -> HostAvailabilityParams(a)
      [] t = "quads_get_current_schedules" -> CurrentSchedulesParams(a)
      [] t = "quads_get_moves" -> MovesParams(a)
      [] OTHER -> None

\* The path appended to base_url.
Path(t, a) ==
    CASE t = "quads_login" -> <<"/login/">>
      [] t = "quads_get_clouds" -> <<"/clouds/">>
      [] t = "quads_get_free_clouds" -> <<"/clouds/free/">>
      [] t = "quads_get_hosts" -> <<"/hosts/">>
      [] t = "quads_get_host_details" -> <<"/hosts/">> \o a.hostname.str \o <<"/">>
      [] t = "quads_get_available_hosts" -> <<"/available/">>
      [] t = "quads_check_host_availability" -> <<"/available/">> \o a.hostname.str \o <<"/">>
      [] t = "quads_get_schedules" -> <<"/schedules/">>
      [] t = "quads_get_current_schedules" -> <<"/schedules/current/">>
      [] t = "quads_get_assignments" -> <<"/assignments/">>
      [] t = "quads_get_active_assignments" ->
            IF Truthy(a.cloud_name)
            THEN <<"/assignments/active/">> \o a.cloud_name.str \o <<"/">>
            ELSE <<"/assignments/active/">>
      [] t = "quads_get_moves" -> <<"/moves/">>
      [] t = "quads_get_version" -> <<"/version/">>

\* The request handed to httpx: client.post for quads_login, client.get otherwise.
Request(t, a, base_url, p) ==
    [method |-> IF t = "quads_login" THEN "POST" ELSE "GET",
     url |-> base_url \o Path(t, a),
     params |-> IF HasParams(t) THEN p ELSE None,
     auth |-> IF t = "quads_login" THEN <<a.username, a.password>> ELSE None,
     timeout |-> HttpTimeout]

\* The requests issued once `await client.get(...)` has been reached.
Send(reqs, r) == Append(reqs, r)

-----------------------------------------------------------------------------
(* The remote call and its outcomes *)

\* A response body that response.json() cannot decode.
NotJson == [type |-> "undecodable"]

\* Decoded JSON bodies the remote API may answer with.
JsonBodies ==
    {List(<<"cloud01", "cloud02">>), List(<<>>),
     Dict([auth_token |-> "t0k3n"]), Dict([error |-> "denied"])}

StatusCodes == {200, 401, 404, 500}

\* httpx's Response.is_success.
IsSuccess(status) == 200 <= status /\ status <= 299

Response(status, body) == [kind |-> "response", status |-> status, body |-> body]

\* The call did not produce a response: the exception client.get raised.
TransportFailure(e) == [kind |-> "failure", exc |-> e]

ConnectError == Exc("ConnectError", <<"All connection attempts failed">>)
\* Raised when the timeout=30.0 of the call expires.
ReadTimeout == Exc("ReadTimeout", <<"The read operation timed out">>)
JSONDecodeError == Exc("JSONDecodeError", <<"Expecting value: line 1 column 1 (char 0)">>)
\* A failed lookup of the request context.
NoRequestContext == Exc("ValueError", <<"Context is not available outside of a request">>)
\* Raised in the suspended coroutine when its task is cancelled.
CancelledError == Exc("CancelledError", <<>>)

Outcomes ==
    {Response(st, b) : st \in {x \in StatusCodes : IsSuccess(x)}, b \in JsonBodies \cup {NotJson}}
    \cup {Response(st, NotJson) : st \in {x \in StatusCodes : ~IsSuccess(x)}}
    \cup {TransportFailure(ConnectError), TransportFailure(ReadTimeout)}

\* The reason phrase of a status line.
ReasonPhrase(status) ==
    CASE status = 401 -> "Unauthorized"
      [] status = 404 -> "Not Found"
      [] status = 500 -> "Internal Server Error"
      [] OTHER -> ""

\* The exception response.raise_for_status() raises for a non-2xx response;
\* str(e) is the text httpx gives it.
HTTPStatusError(status, url) ==
    [type |-> "HTTPStatusError",
     msg |-> <<IF status >= 500 THEN "Server error" ELSE "Client error", " '">>
             \o StrInt(status) \o <<" ", ReasonPhrase(status), "' for url '">> \o url
             \o <<"'\nFor more information check: https://developer.mozilla.org/en-US/docs/Web/HTTP/Status/">>
             \o StrInt(status),
     status_code |-> status]

\* `except Exception` catches e: CancelledError derives from BaseException.
IsException(e) == e.type # "CancelledError"

-----------------------------------------------------------------------------
(* Diagnostics and result normalizer *)

Info(msg) == [level |-> "info", msg |-> msg]
Error(msg) == [level |-> "error", msg |-> msg]

ReprStr(v) == <<"'">> \o v \o <<"'">>

\* The items of repr(params), in insertion order.
RECURSIVE ReprItems(_, _, _)
ReprItems(names, p, first) ==
    IF names = <<>> THEN <<>>
    ELSE LET k == Head(names) IN
         IF k \in DOMAIN p
         THEN (IF first THEN <<>> ELSE <<", ">>) \o <<"'", k, "': ">> \o ReprStr(p[k])
              \o ReprItems(Tail(names), p, FALSE)
         ELSE ReprItems(Tail(names), p, first)

\* f"{params}".
ReprDict(t, p) ==
    <<"{">> \o ReprItems(OptionalStrArgs(t) \o OptionalBoolArgs(t), p, TRUE) \o <<"}">>

\* f"{len(result) if isinstance(result, list) else 'unknown'}".
CountOf(result) ==
    IF result.type = "list" THEN StrInt(Len(result.v)) ELSE <<"unknown">>

\* The message of the ctx.info call made before the request.
InfoBefore(t, a, base_url, p) ==
    CASE t = "quads_login" -> <<"Logging in to QUADS API at ">> \o base_url
      [] t = "quads_get_clouds" -> <<"Fetching all clouds from QUADS">>
      [] t = "quads_get_free_clouds" -> <<"Fetching free clouds from QUADS">>
      [] t = "quads_get_hosts" ->
            <<"Fetching hosts from QUADS with filters: ">> \o ReprDict(t, p)
      [] t = "quads_get_host_details" -> <<"Fetching details for host: ">> \o a.hostname.str
      [] t = "quads_get_available_hosts" ->
            <<"Fetching available hosts with parameters: ">> \o ReprDict(t, p)
      [] t = "quads_check_host_availability" ->
            <<"Checking availability for host ">> \o a.hostname.str
            \o <<" with parameters: ">> \o ReprDict(t, p)
      [] t = "quads_get_schedules" -> <<"Fetching all schedules from QUADS">>
      [] t = "quads_get_current_schedules" ->
            <<"Fetching current schedules with parameters: ">> \o ReprDict(t, p)
      [] t = "quads_get_assignments" -> <<"Fetching all assignments from QUADS">>
      [] t = "quads_get_active_assignments" ->
            IF Truthy(a.cloud_name)
            THEN <<"Fetching active assignments for cloud: ">> \o a.cloud_name.str
            ELSE <<"Fetching all active assignments">>
      [] t = "quads_get_moves" -> <<"Fetching moves with parameters: ">> \o ReprDict(t, p)
      [] t = "quads_get_version" -> <<"Fetching QUADS version">>

\* The message of the ctx.info call made after response.json().
InfoAfter(t, a, result) ==
    CASE t = "quads_login" -> <<"Successfully logged in to QUADS">>
      [] t = "quads_get_clouds" -> <<"Retrieved ">> \o CountOf(result) \o <<" clouds">>
      [] t = "quads_get_free_clouds" ->
            <<"Retrieved ">> \o CountOf(result) \o <<" free clouds">>
      [] t = "quads_get_hosts" -> <<"Retrieved ">> \o CountOf(result) \o <<" hosts">>
      [] t = "quads_get_host_details" -> <<"Retrieved details for host ">> \o a.hostname.str
      [] t = "quads_get_available_hosts" ->
            <<"Retrieved ">> \o CountOf(result) \o <<" available hosts">>
      [] t = "quads_check_host_availability" ->
            <<"Checked availability for host ">> \o a.hostname.str
      [] t = "quads_get_schedules" -> <<"Retrieved ">> \o CountOf(result) \o <<" schedules">>
      [] t = "quads_get_current_schedules" -> <<"Retrieved current schedules">>
      [] t = "quads_get_assignments" -> <<"Retrieved assignments">>
      [] t = "quads_get_active_assignments" -> <<"Retrieved active assignments">>
      [] t = "quads_get_moves" -> <<"Retrieved ">> \o CountOf(result) \o <<" moves">>
      [] t = "quads_get_version" -> <<"Retrieved QUADS version">>

\* The value returned on the success path.
SuccessValue(t, a, p, result) ==
    CASE t = "quads_login" -> result
      [] t = "quads_get_clouds" -> Dict("clouds" :> result)
      [] t = "quads_get_free_clouds" -> Dict("free_clouds" :> result)
      [] t = "quads_get_hosts" -> Dict(("hosts" :> result) @@ ("filters" :> Dict(p)))
      [] t = "quads_get_host_details" -> Dict("host" :> result)
      [] t = "quads_get_available_hosts" ->
            Dict(("available_hosts" :> result) @@ ("parameters" :> Dict(p)))
      [] t = "quads_check_host_availability" ->
            Dict(("hostname" :> a.hostname) @@ ("availability" :> result)
                 @@ ("parameters" :> Dict(p)))
      [] t = "quads_get_schedules" -> Dict("schedules" :> result)
      [] t = "quads_get_current_schedules" ->
            Dict(("current_schedules" :> result) @@ ("parameters" :> Dict(p)))
      [] t = "quads_get_assignments" -> Dict("assignments" :> result)
      [] t = "quads_get_active_assignments" ->
            Dict(("active_assignments" :> result) @@ ("cloud_filter" :> a.cloud_name))
      [] t = "quads_get_moves" -> Dict(("moves" :> result) @@ ("parameters" :> Dict(p)))
      [] t = "quads_get_version" -> Dict("version" :> result)

\* The text before ": " in the error_msg of the `except Exception` clause.
ErrorPrefix(t, a) ==
    CASE t = "quads_login" -> <<"Login error">>
      [] t = "quads_get_clouds" -> <<"Failed to get clouds">>
      [] t = "quads_get_free_clouds" -> <<"Failed to get free clouds">>
      [] t = "quads_get_hosts" -> <<"Failed to get hosts">>
      [] t = "quads_get_host_details" -> <<"Failed to get host details for ">> \o a.hostname.str
      [] t = "quads_get_available_hosts" -> <<"Failed to get available hosts">>
      [] t = "quads_check_host_availability" ->
            <<"Failed to check host availability for ">> \o a.hostname.str
      [] t = "quads_get_schedules" -> <<"Failed to get schedules">>
      [] t = "quads_get_current_schedules" -> <<"Failed to get current schedules">>
      [] t = "quads_get_assignments" -> <<"Failed to get assignments">>
      [] t = "quads_get_active_assignments" -> <<"Failed to get active assignments">>
      [] t = "quads_get_moves" -> <<"Failed to get moves">>
      [] t = "quads_get_version" -> <<"Failed to get version">>

\* Only quads_login has an `except httpx.HTTPStatusError` clause.
CatchesHTTPStatusError(t) == t = "quads_login"

\* error_msg of the except clause that catches e.
ErrorMsg(t, a, e) ==
    IF CatchesHTTPStatusError(t) /\ e.type = "HTTPStatusError"
    THEN <<"Login failed", ": ", "HTTP ">> \o StrInt(e.status_code)
    ELSE ErrorPrefix(t, a) \o <<": ">> \o e.msg

\* Faulty variant of ErrorEnvelope: every except clause reports a status_code.
ErrorEnvelopeWithStatus(t, a, e) ==
    Dict(("error" :> ErrorMsg(t, a, e))
         @@ ("status_code" :> IF e.type = "HTTPStatusError" THEN e.status_code ELSE 0))

\* The dict returned by the except clause that catches e.
ErrorEnvelope(t, a, e) ==
    IF CatchesHTTPStatusError(t) /\ e.type = "HTTPStatusError"
    THEN Dict(("error" :> ErrorMsg(t, a, e)) @@ ("status_code" :> e.status_code))
    ELSE Dict("error" :> ErrorMsg(t, a, e))

\* How the coroutine goes on: suspended in the call, returned, or raised.
Frame(p, reqs, lg, prm, r, e) ==
    [pc |-> p, sent |-> reqs, log |-> lg, params |-> prm, ret |-> r, exc |-> e]

\* Faulty variant of Handle: the except clauses return without calling ctx.error.
HandleWithoutLog(t, a, c, e, reqs, lg, prm) ==
    IF ~IsException(e)
    THEN Frame("raised", reqs, lg, prm, NoRet, e)
    ELSE Frame("returned", reqs, lg, prm, ErrorEnvelope(t, a, e), NoExc)

\* Exception e raised inside the try block: the except clauses.  ctx.error
\* on a ctx of None raises AttributeError inside the handler, which leaves
\* the coroutine.
Handle(t, a, c, e, reqs, lg, prm) ==
    IF ~IsException(e)
    THEN Frame("raised", reqs, lg, prm, NoRet, e)
    ELSE IF c = None
    THEN Frame("raised", reqs, lg, prm, NoRet,
               Exc("AttributeError", <<"'NoneType' object has no attribute 'error'">>))
    ELSE Frame("returned", reqs, Append(lg, Error(ErrorMsg(t, a, e))), prm,
               ErrorEnvelope(t, a, e), NoExc)

\* The coroutine from its start to the awaited HTTP call.
Begin(t, a, c, rcOk, cfg) ==
    IF ~rcOk THEN Handle(t, a, c, NoRequestContext, <<>>, <<>>, None)
    ELSE LET b == BaseUrl(cfg) IN
    IF ~b.ok THEN Handle(t, a, c, b.exc, <<>>, <<>>, None)
    ELSE LET p == BuildParams(t, a) IN
    IF c = None
    THEN Handle(t, a, c,
                Exc("AttributeError", <<"'NoneType' object has no attribute 'info'">>),
                <<>>, <<>>, p)
    ELSE Frame("await", Send(<<>>, Request(t, a, b.url, p)),
               <<Info(InfoBefore(t, a, b.url, p))>>, p, NoRet, NoExc)

\* Faulty variant of Complete: a failed or timed-out call is sent once more before
\* the error is reported.
CompleteWithRetry(t, a, c, reqs, lg, prm, o) ==
    IF o.kind = "failure"
    THEN Handle(t, a, c, o.exc, Send(reqs, reqs[Len(reqs)]), lg, prm)
    ELSE IF ~IsSuccess(o.status)
    THEN Handle(t, a, c, HTTPStatusError(o.status, reqs[Len(reqs)].url), reqs, lg, prm)
    ELSE IF o.body = NotJson THEN Handle(t, a, c, JSONDecodeError, reqs, lg, prm)
    ELSE Frame("returned", reqs, Append(lg, Info(InfoAfter(t, a, o.body))), prm,
               SuccessValue(t, a, prm, o.body), NoExc)

\* The coroutine from the completion o of the awaited call to its end.
Complete(t, a, c, reqs, lg, prm, o) ==
    IF o.kind = "failure" THEN Handle(t, a, c, o.exc, reqs, lg, prm)
    ELSE IF ~IsSuccess(o.status)
    THEN Handle(t, a, c, HTTPStatusError(o.status, reqs[Len(reqs)].url), reqs, lg, prm)
    ELSE IF o.body = NotJson THEN Handle(t, a, c, JSONDecodeError, reqs, lg, prm)
    ELSE IF c = None
    THEN Handle(t, a, c,
                Exc("AttributeError", <<"'NoneType' object has no attribute 'info'">>),
                reqs, lg, prm)
    ELSE Frame("returned", reqs, Append(lg, Info(InfoAfter(t, a, o.body))), prm,
               SuccessValue(t, a, prm, o.body), NoExc)

-----------------------------------------------------------------------------
(* Inputs *)

\* Values an Optional[str] argument is called with: None, "" and a text.
OptStrValues == {None, Str(<<>>), Str(<<"cloud01">>)}

\* Values an Optional[bool] argument is called with.
OptBoolValues == {None, PyTrue, PyFalse}

RequiredValues == {Str(<<"host01">>), Str(<<"admin">>), Str(<<"secret">>)}

ArgValues(t, n) ==
    IF n = "username" THEN {Str(<<"admin">>)}
    ELSE IF n = "password" THEN {Str(<<"secret">>)}
    ELSE IF n \in Range(RequiredArgs(t)) THEN {Str(<<"host01">>)}
    ELSE IF n \in Range(OptionalBoolArgs(t)) THEN OptBoolValues
    ELSE OptStrValues

\* Every way of calling tool t.
ArgSets(t) ==
    {a \in [ArgNames(t) -> RequiredValues \cup OptBoolValues \cup OptStrValues] :
        \A n \in ArgNames(t) : a[n] \in ArgValues(t, n)}

\* The calls of tool t with every optional argument set.
FullArgSets(t) ==
    {a \in ArgSets(t) :
        \A n \in ArgNames(t) \ Range(RequiredArgs(t)) : a[n] \in {Str(<<"cloud01">>), PyTrue}}

\* The ctx a tool can be called with: the injected handle, or the default None.
CtxValues(t) == IF CtxDefaultsToNone(t) THEN {CtxHandle, None} ELSE {CtxHandle}

\* Configurations load_config may hand to AppContext.
ConfigValues ==
    {EmptyDict,
     [quads |-> EmptyDict],
     [quads |-> [base_url |-> <<"http://quads.lab/api/v3">>]],
     [quads |-> None]}

-----------------------------------------------------------------------------
(* State machine *)

\* app_lifespan has yielded AppContext(config=config); no tool has been called.
Init ==
    /\ config \in ConfigValues
    /\ pc = [i \in Inv |-> "idle"]
    /\ tool = [i \in Inv |-> NoTool]
    /\ args = [i \in Inv |-> NoArgs]
    /\ ctx = [i \in Inv |-> None]
    /\ reqctx = [i \in Inv |-> TRUE]
    /\ sent = [i \in Inv |-> <<>>]
    /\ log = [i \in Inv |-> <<>>]
    /\ outcome = [i \in Inv |-> NoOutcome]
    /\ params = [i \in Inv |-> None]
    /\ ret = [i \in Inv |-> NoRet]
    /\ exc = [i \in Inv |-> NoExc]

\* Invocation i moves to frame f.
Goto(i, f) ==
    /\ pc' = [pc EXCEPT ![i] = f.pc]
    /\ sent' = [sent EXCEPT ![i] = f.sent]
    /\ log' = [log EXCEPT ![i] = f.log]
    /\ params' = [params EXCEPT ![i] = f.params]
    /\ ret' = [ret EXCEPT ![i] = f.ret]
    /\ exc' = [exc EXCEPT ![i] = f.exc]

\* The protocol layer calls tool t with arguments a and handle c; the
\* coroutine runs up to its await, or to its end if it fails before.
Invoke(i, t, a, c, rcOk) ==
    /\ pc[i] = "idle"
    /\ tool' = [tool EXCEPT ![i] = t]
    /\ args' = [args EXCEPT ![i] = a]
    /\ ctx' = [ctx EXCEPT ![i] = c]
    /\ reqctx' = [reqctx EXCEPT ![i] = rcOk]
    /\ config' = ConfigAfterGet(config)
    /\ Goto(i, Begin(t, a, c, rcOk, config))
    /\ UNCHANGED outcome

\* The awaited HTTP call of invocation i ends with outcome o; the coroutine
\* runs to its end.
Respond(i, o) ==
    /\ pc[i] = "await"
    /\ outcome' = [outcome EXCEPT ![i] = o]
    /\ Goto(i, Complete(tool[i], args[i], ctx[i], sent[i], log[i], params[i], o))
    /\ UNCHANGED <<config, tool, args, ctx, reqctx>>

\* The task of invocation i is cancelled while it awaits the HTTP call.
Cancel(i) ==
    /\ pc[i] = "await"
    /\ outcome' = [outcome EXCEPT ![i] = TransportFailure(CancelledError)]
    /\ Goto(i, Handle(tool[i], args[i], ctx[i], CancelledError, sent[i], log[i], params[i]))
    /\ UNCHANGED <<config, tool, args, ctx, reqctx>>

\* One invocation at a time, called in every way.
Next ==
    \/ \E t \in Tools : \E a \in ArgSets(t) : \E c \in CtxValues(t) : \E rcOk \in BOOLEAN :
          Invoke(1, t, a, c, rcOk)
    \/ \E o \in Outcomes : Respond(1, o)
    \/ Cancel(1)

Spec == Init /\ [][Next]_vars

\* The tools run together: one of each shape (own except clause for HTTP
\* status, no argument, query parameters, path parameter, optional path
\* parameter with ctx defaulting to None).
ConcurrentTools ==
    {"quads_login", "quads_get_clouds", "quads_get_hosts",
     "quads_get_host_details", "quads_get_active_assignments"}

\* The outcomes of a call made while others are in flight: one of each kind.
ConcurrentOutcomes ==
    {Response(200, List(<<"cloud01", "cloud02">>)), Response(404, NotJson),
     TransportFailure(ReadTimeout)}

\* Invocations in flight together, interleaved at their awaits.
NextConcurrent ==
    \/ \E i \in Inv : \E t \in ConcurrentTools : \E a \in FullArgSets(t) :
       \E c \in CtxValues(t) : \E rcOk \in BOOLEAN :
          Invoke(i, t, a, c, rcOk)
    \/ \E i \in Inv : \E o \in ConcurrentOutcomes : Respond(i, o)
    \/ \E i \in Inv : Cancel(i)

SpecConcurrent == Init /\ [][NextConcurrent]_vars

-----------------------------------------------------------------------------
(* Vocabulary of the properties *)

\* The invocations that ended by returning a value / that have issued a request.
Returned == {i \in Inv : pc[i] = "returned"}
Requested == {i \in Inv : Len(sent[i]) >= 1}

\* The top-level keys of a returned value (a value that is no dict has none).
Keys(v) == IF v.type = "dict" THEN DOMAIN v.v ELSE {}

\* The success key the specification documents for each operation; for
\* quads_login, the token its docstring promises.
DocumentedSuccessKey(t) ==
    CASE t = "quads_login" -> "auth_token"
      [] t = "quads_get_clouds" -> "clouds"
      [] t = "quads_get_free_clouds" -> "free_clouds"
      [] t = "quads_get_hosts" -> "hosts"
      [] t = "quads_get_host_details" -> "host"
      [] t = "quads_get_available_hosts" -> "available_hosts"
      [] t = "quads_check_host_availability" -> "availability"
      [] t = "quads_get_schedules" -> "schedules"
      [] t = "quads_get_current_schedules" -> "current_schedules"
      [] t = "quads_get_assignments" -> "assignments"
      [] t = "quads_get_active_assignments" -> "active_assignments"
      [] t = "quads_get_moves" -> "moves"
      [] t = "quads_get_version" -> "version"

\* The remote call of invocation i was answered with a non-2xx status.
Rejected(i) == outcome[i].kind = "response" /\ ~IsSuccess(outcome[i].status)

\* The remote call of invocation i was answered 2xx with a JSON body.
Succeeded(i) ==
    outcome[i].kind = "response" /\ IsSuccess(outcome[i].status)
    /\ outcome[i].body # NotJson

\* The remote call of invocation i failed other than by an HTTP status:
\* connection error, timeout, or a 2xx body that is not JSON.
FailedOtherwise(i) ==
    \/ outcome[i].kind = "failure" /\ outcome[i].exc.type # "CancelledError"
    \/ outcome[i].kind = "response" /\ IsSuccess(outcome[i].status)
       /\ outcome[i].body = NotJson

\* Text s ends with text e (both as fragments).
EndsWith(s, e) ==
    Len(s) >= Len(e) /\ SubSeq(s, Len(s) - Len(e) + 1, Len(s)) = e

\* Text s starts with text b.
StartsWith(s, b) == Len(s) >= Len(b) /\ SubSeq(s, 1, Len(b)) = b

-----------------------------------------------------------------------------
(* C1 *)

\* C1 (as claimed): every value a tool returns has exactly one of the
\* operation's documented success key and an `error` key: never both, never
\* neither.
C1_ExactlyOneShape ==
    \A i \in Returned :
        (DocumentedSuccessKey(tool[i]) \in Keys(ret[i])) # ("error" \in Keys(ret[i]))

-----------------------------------------------------------------------------
(* C2 *)

\* C2 (as claimed): no exception ever leaves a tool invocation: whatever
\* fails (request context lookup, ctx call, HTTP call, JSON decoding,
\* cancellation), the invocation ends by returning a value.
C2_NoExceptionEscapes ==
    \A i \in Inv : pc[i] # "raised" /\ exc[i] = NoExc

-----------------------------------------------------------------------------
(* C3 *)

\* C3 (as claimed): a non-2xx response with status S yields an error
\* envelope whose text names the operation and ends with "HTTP S" and whose
\* status_code is S; a 404 for host details of H yields exactly
\* {error: "Failed to get host details for H: HTTP 404", status_code: 404}.
C3_StatusErrorEnvelope ==
    \A i \in Returned : Rejected(i) =>
        LET S == outcome[i].status IN
        /\ Keys(ret[i]) = {"error", "status_code"}
        /\ EndsWith(ret[i].v["error"], <<"HTTP ">> \o StrInt(S))
        /\ ret[i].v["status_code"] = S
        /\ (tool[i] = "quads_get_host_details" /\ S = 404 =>
              ret[i].v["error"] =
                 <<"Failed to get host details for ">> \o args[i].hostname.str
                 \o <<": ", "HTTP ", "4", "0", "4">>)

-----------------------------------------------------------------------------
(* C4 *)

\* The failure message of a call that failed other than by an HTTP status.
FailureMessage(o) == IF o.kind = "failure" THEN o.exc.msg ELSE JSONDecodeError.msg

\* C4: a failure that is not an HTTP status rejection (connection error,
\* timeout of the 30-unit limit, 2xx body that is not JSON) yields an
\* envelope whose only key is `error` (no status_code), its text made of the
\* operation's name and the failure message.
C4_TransportErrorEnvelope ==
    \A i \in Inv : outcome[i] # NoOutcome /\ FailedOtherwise(i) =>
        /\ pc[i] = "returned"
        /\ "error" \in Keys(ret[i])
        /\ "status_code" \notin Keys(ret[i])
        /\ StartsWith(ret[i].v["error"], ErrorPrefix(tool[i], args[i]))
        /\ EndsWith(ret[i].v["error"], FailureMessage(outcome[i]))

\* A call that timed out has returned its error envelope.
C4_Witness ==
    \E i \in Returned :
        /\ outcome[i] = TransportFailure(ReadTimeout)
        /\ Keys(ret[i]) = {"error"}
        /\ sent[i][1].timeout = 30

-----------------------------------------------------------------------------
(* C5 *)

\* C5 (as claimed): on a 2xx response the decoded JSON body is returned
\* unchanged under the operation's success key, never unwrapped.
C5_BodyUnderSuccessKey ==
    \A i \in Returned : Succeeded(i) =>
        /\ ret[i] # outcome[i].body
        /\ DocumentedSuccessKey(tool[i]) \in Keys(ret[i])
        /\ ret[i].v[DocumentedSuccessKey(tool[i])] = outcome[i].body

-----------------------------------------------------------------------------
(* C6 *)

\* The tools that take optional filter arguments sent as query parameters.
FilterTools ==
    {"quads_get_hosts", "quads_get_available_hosts", "quads_check_host_availability",
     "quads_get_current_schedules", "quads_get_moves"}

\* The filter arguments of tool t.
Filters(t) == Range(OptionalStrArgs(t)) \cup Range(OptionalBoolArgs(t))

\* C6: in the request of a filter tool no query parameter stands for an
\* argument left unset (None); with every filter unset the query parameter
\* set is empty.
C6_UnsetFiltersAbsent ==
    \A i \in Requested : tool[i] \in FilterTools =>
        LET q == sent[i][1].params IN
        /\ \A n \in Filters(tool[i]) : args[i][n] = None => n \notin DOMAIN q
        /\ (\A n \in Filters(tool[i]) : args[i][n] = None) => DOMAIN q = {}
        /\ DOMAIN q \subseteq Filters(tool[i])

\* quads_get_hosts was requested with some filters unset and some set.
C6_Witness ==
    \E i \in Requested :
        /\ tool[i] = "quads_get_hosts"
        /\ args[i].broken = None /\ args[i].model = None
        /\ args[i].name = Str(<<"cloud01">>)
        /\ DOMAIN sent[i][1].params = {"name"}

-----------------------------------------------------------------------------
(* C7 *)

\* C7: in quads_get_hosts a `broken` that is set is sent as the query
\* parameter "true" (for True) or "false" (for False), in lower case;
\* False is sent, not treated as unset.
C7_BrokenLowercase ==
    \A i \in Requested : tool[i] = "quads_get_hosts" /\ args[i].broken # None =>
        LET q == sent[i][1].params IN
        /\ "broken" \in DOMAIN q
        /\ q["broken"] = IF args[i].broken = PyTrue
                         THEN <<"t", "r", "u", "e">>
                         ELSE <<"f", "a", "l", "s", "e">>

\* quads_get_hosts was requested with broken=False.
C7_Witness ==
    \E i \in Requested :
        /\ tool[i] = "quads_get_hosts"
        /\ args[i].broken = PyFalse
        /\ sent[i][1].params["broken"] = <<"f", "a", "l", "s", "e">>

-----------------------------------------------------------------------------
(* C8 *)

\* The number of messages of a level that an invocation gave to its ctx.
Count(lg, level) == Cardinality({k \in DOMAIN lg : lg[k].level = level})

\* C8 (as claimed): an invocation that returns an error envelope has
\* emitted exactly one error-level message; one that returns a success
\* envelope has emitted exactly one informational message and no error.
C8_OneMessagePerPath ==
    \A i \in Returned :
        /\ "error" \in Keys(ret[i]) /\ ~Succeeded(i) => Count(log[i], "error") = 1
        /\ Succeeded(i) => Count(log[i], "info") = 1 /\ Count(log[i], "error") = 0

\* C8 (amended): an invocation that returns after a failure (before the
\* request, of the call, of the status check or of the decoding) has given
\* its ctx exactly one error-level message, the last one, after at most one
\* informational message; an invocation that returns after a 2xx JSON
\* response has given it exactly two informational messages (one before the
\* request, one after decoding) and no error-level message.
C8_MessagesPerPath ==
    \A i \in Returned :
        /\ ~Succeeded(i) =>
              /\ Count(log[i], "error") = 1
              /\ log[i][Len(log[i])].level = "error"
              /\ log[i][Len(log[i])].msg = ret[i].v["error"]
              /\ Count(log[i], "info") <= 1
        /\ Succeeded(i) => Count(log[i], "info") = 2 /\ Count(log[i], "error") = 0

\* Both paths have been taken: here a success with its two messages.
C8_Witness ==
    \E i \in Returned :
        /\ Succeeded(i)
        /\ tool[i] = "quads_get_clouds"
        /\ Len(log[i]) = 2

-----------------------------------------------------------------------------
(* C10 *)

\* Resolving the configuration fails for invocation i.
ConfigUnresolved(i) == ~reqctx[i] \/ ~BaseUrl(config).ok

\* C10: an invocation issues at most one HTTP request, with a timeout of
\* 30; when the request has failed or timed out the invocation has ended
\* with an error envelope without a second request; no request is issued
\* when resolving the configuration fails.
C10_SingleRequestNoRetry ==
    \A i \in Inv :
        /\ Len(sent[i]) <= 1
        /\ \A k \in DOMAIN sent[i] : sent[i][k].timeout = 30
        /\ outcome[i] # NoOutcome /\ (FailedOtherwise(i) \/ Rejected(i)) =>
              pc[i] = "returned" /\ "error" \in Keys(ret[i]) /\ Len(sent[i]) = 1
        /\ pc[i] # "idle" /\ ConfigUnresolved(i) => sent[i] = <<>>

\* A request timed out and the invocation returned with that one request sent.
C10_Witness ==
    \E i \in Returned :
        outcome[i] = TransportFailure(ReadTimeout) /\ Len(sent[i]) = 1

-----------------------------------------------------------------------------
(* C9 *)

\* Everything invocation i owns.
Local(i) ==
    <<pc[i], tool[i], args[i], ctx[i], reqctx[i], sent[i], log[i], outcome[i],
      params[i], ret[i], exc[i]>>

\* The frame in which tool t ends when it runs with nothing else in flight.
Alone(t, a, c, rcOk, cfg, o) ==
    LET f == Begin(t, a, c, rcOk, cfg) IN
    IF f.pc # "await" THEN f
    ELSE IF o.kind = "failure" /\ o.exc.type = "CancelledError"
    THEN Handle(t, a, c, CancelledError, f.sent, f.log, f.params)
    ELSE Complete(t, a, c, f.sent, f.log, f.params, o)

\* No step writes the shared config, and a step changes the state of one
\* invocation only.
C9_StepIsolated ==
    /\ config' = config
    /\ \A i, j \in Inv : i # j /\ Local(i)' # Local(i) => Local(j)' = Local(j)

\* An invocation that has ended has ended as it would have alone, and a
\* suspended invocation can complete whatever the others are doing.
C9_AsIfAlone ==
    \A i \in Inv :
        /\ pc[i] \in {"returned", "raised"} =>
              LET f == Alone(tool[i], args[i], ctx[i], reqctx[i], config, outcome[i]) IN
              /\ pc[i] = f.pc /\ ret[i] = f.ret /\ exc[i] = f.exc
              /\ sent[i] = f.sent /\ log[i] = f.log
        /\ pc[i] = "await" => \A o \in ConcurrentOutcomes : ENABLED Respond(i, o)

\* C9: under any interleaving of concurrent invocations at their awaits, no
\* invocation writes state another can read (config is only read), each
\* ends with the envelope it would have produced alone, and none waits on
\* another to complete.
C9_ConcurrentIsolation == [][C9_StepIsolated]_vars /\ []C9_AsIfAlone

\* Two invocations of different tools are suspended in their HTTP calls together.
C9_Witness ==
    \E i, j \in Inv :
        /\ i # j /\ tool[i] # tool[j]
        /\ pc[i] = "await" /\ pc[j] = "await"

-----------------------------------------------------------------------------
(* C11 *)

\* The key under which a filter tool echoes its params in the success envelope.
EchoKey(t) == IF t = "quads_get_hosts" THEN "filters" ELSE "parameters"

\* C11: in every tool that sends string filters as query parameters, a
\* string filter is a query parameter of the request if and only if it is a
\* non-empty string, and then with its value unchanged (None and "" are
\* both left out); the filters / parameters field of the success envelope
\* is exactly the query parameter set that was sent.
C11_StringFiltersSentIffNonEmpty ==
    \A i \in Requested : tool[i] \in FilterTools =>
        LET q == sent[i][1].params IN
        /\ \A n \in Range(OptionalStrArgs(tool[i])) :
              /\ (n \in DOMAIN q) <=> (args[i][n] # None /\ args[i][n] # Str(<<>>))
              /\ n \in DOMAIN q => q[n] = args[i][n].str
        /\ pc[i] = "returned" /\ Succeeded(i) =>
              /\ EchoKey(tool[i]) \in Keys(ret[i])
              /\ ret[i].v[EchoKey(tool[i])] = Dict(q)

\* quads_get_hosts succeeded after a call with name="", model=None and a
\* non-empty host_type: only host_type was sent, and it is what is echoed.
C11_Witness ==
    \E i \in Returned :
        /\ tool[i] = "quads_get_hosts" /\ Succeeded(i)
        /\ args[i].name = Str(<<>>) /\ args[i].model = None
        /\ args[i].host_type = Str(<<"cloud01">>) /\ args[i].broken = None
        /\ sent[i][1].params = [host_type |-> <<"cloud01">>]
        /\ ret[i].v["filters"] = Dict([host_type |-> <<"cloud01">>])

====
